---- MODULE Spec2Model ----
(***************************************************************************)
(* Flight-search tool of the chat application: the airport resolver        *)
(* (findAirportCode), the tool's parameter validation (validateDate,       *)
(* searchFlights.execute) and the API client's response normalisation      *)
(* (SerpApiService.searchFlights: strict pass, pruning, fallback).         *)
(*                                                                         *)
(* JavaScript strings that the code inspects character by character are    *)
(* sequences of one-character strings; an optional value is the empty      *)
(* sequence (undefined) or a one-element sequence.                         *)
(***************************************************************************)
EXTENDS Integers, Sequences, FiniteSets, TLC

\* ------------------------------------------------------------------------
\* Strings
\* ------------------------------------------------------------------------

LowerLetters == <<"a","b","c","d","e","f","g","h","i","j","k","l","m",
                  "n","o","p","q","r","s","t","u","v","w","x","y","z">>

UpperLetters == <<"A","B","C","D","E","F","G","H","I","J","K","L","M",
                  "N","O","P","Q","R","S","T","U","V","W","X","Y","Z">>

Digits == <<"0","1","2","3","4","5","6","7","8","9">>

Range(s) == {s[i] : i \in DOMAIN s}

\* String.prototype.toUpperCase / toLowerCase on one ASCII character.
UpperChar(c) ==
    IF \E i \in DOMAIN LowerLetters : LowerLetters[i] = c
    THEN UpperLetters[CHOOSE i \in DOMAIN LowerLetters : LowerLetters[i] = c]
    ELSE c

LowerChar(c) ==
    IF \E i \in DOMAIN UpperLetters : UpperLetters[i] = c
    THEN LowerLetters[CHOOSE i \in DOMAIN UpperLetters : UpperLetters[i] = c]
    ELSE c

toUpperCase(s) == [i \in DOMAIN s |-> UpperChar(s[i])]

toLowerCase(s) == [i \in DOMAIN s |-> LowerChar(s[i])]

IsSpace(c) == c = " "

\* String.prototype.trim: leading and trailing white space removed.
RECURSIVE trimStart(_)
trimStart(s) ==
    IF s # <<>> /\ IsSpace(Head(s)) THEN trimStart(Tail(s)) ELSE s

RECURSIVE trimEnd(_)
trimEnd(s) ==
    IF s # <<>> /\ IsSpace(s[Len(s)])
    THEN trimEnd(SubSeq(s, 1, Len(s) - 1))
    ELSE s

trim(s) == trimEnd(trimStart(s))

\* String.prototype.includes: t occurs in s as a contiguous substring
\* (the empty string occurs in every string).
includes(s, t) ==
    \E i \in 1..(Len(s) - Len(t) + 1) : SubSeq(s, i, i + Len(t) - 1) = t

\* ------------------------------------------------------------------------
\* Airport resolver
\* ------------------------------------------------------------------------

\* The result null of findAirportCode (no code is a one-element string).
null == <<"null">>

\* Object.entries(COMMON_AIRPORTS) in insertion order.
COMMON_AIRPORTS ==
    << [city |-> <<"n", "e", "w", " ", "y", "o", "r", "k">>,
        codes |-> <<<<"J", "F", "K">>, <<"L", "G", "A">>, <<"E", "W", "R">>>>],
       [city |-> <<"n", "y", "c">>,
        codes |-> <<<<"J", "F", "K">>, <<"L", "G", "A">>, <<"E", "W", "R">>>>],
       [city |-> <<"l", "o", "s", " ", "a", "n", "g", "e", "l", "e", "s">>,
        codes |-> <<<<"L", "A", "X">>>>],
       [city |-> <<"l", "a">>,
        codes |-> <<<<"L", "A", "X">>>>],
       [city |-> <<"c", "h", "i", "c", "a", "g", "o">>,
        codes |-> <<<<"O", "R", "D">>, <<"M", "D", "W">>>>],
       [city |-> <<"s", "a", "n", " ", "f", "r", "a", "n", "c", "i", "s", "c", "o">>,
        codes |-> <<<<"S", "F", "O">>>>],
       [city |-> <<"s", "f">>,
        codes |-> <<<<"S", "F", "O">>>>],
       [city |-> <<"m", "i", "a", "m", "i">>,
        codes |-> <<<<"M", "I", "A">>>>],
       [city |-> <<"b", "o", "s", "t", "o", "n">>,
        codes |-> <<<<"B", "O", "S">>>>],
       [city |-> <<"s", "e", "a", "t", "t", "l", "e">>,
        codes |-> <<<<"S", "E", "A">>>>],
       [city |-> <<"d", "e", "n", "v", "e", "r">>,
        codes |-> <<<<"D", "E", "N">>>>],
       [city |-> <<"a", "t", "l", "a", "n", "t", "a">>,
        codes |-> <<<<"A", "T", "L">>>>],
       [city |-> <<"d", "a", "l", "l", "a", "s">>,
        codes |-> <<<<"D", "F", "W">>, <<"D", "A", "L">>>>],
       [city |-> <<"w", "a", "s", "h", "i", "n", "g", "t", "o", "n">>,
        codes |-> <<<<"D", "C", "A">>, <<"I", "A", "D">>, <<"B", "W", "I">>>>],
       [city |-> <<"d", "c">>,
        codes |-> <<<<"D", "C", "A">>, <<"I", "A", "D">>, <<"B", "W", "I">>>>],
       [city |-> <<"l", "o", "n", "d", "o", "n">>,
        codes |-> <<<<"L", "H", "R">>, <<"L", "G", "W">>, <<"S", "T", "N">>, <<"L", "T", "N">>>>],
       [city |-> <<"p", "a", "r", "i", "s">>,
        codes |-> <<<<"C", "D", "G">>, <<"O", "R", "Y">>>>],
       [city |-> <<"a", "m", "s", "t", "e", "r", "d", "a", "m">>,
        codes |-> <<<<"A", "M", "S">>>>],
       [city |-> <<"f", "r", "a", "n", "k", "f", "u", "r", "t">>,
        codes |-> <<<<"F", "R", "A">>>>],
       [city |-> <<"m", "a", "d", "r", "i", "d">>,
        codes |-> <<<<"M", "A", "D">>>>],
       [city |-> <<"r", "o", "m", "e">>,
        codes |-> <<<<"F", "C", "O">>, <<"C", "I", "A">>>>],
       [city |-> <<"b", "a", "r", "c", "e", "l", "o", "n", "a">>,
        codes |-> <<<<"B", "C", "N">>>>],
       [city |-> <<"b", "e", "r", "l", "i", "n">>,
        codes |-> <<<<"B", "E", "R">>>>],
       [city |-> <<"z", "u", "r", "i", "c", "h">>,
        codes |-> <<<<"Z", "U", "R">>>>],
       [city |-> <<"v", "i", "e", "n", "n", "a">>,
        codes |-> <<<<"V", "I", "E">>>>],
       [city |-> <<"t", "o", "k", "y", "o">>,
        codes |-> <<<<"N", "R", "T">>, <<"H", "N", "D">>>>],
       [city |-> <<"b", "e", "i", "j", "i", "n", "g">>,
        codes |-> <<<<"P", "E", "K">>, <<"P", "K", "X">>>>],
       [city |-> <<"s", "h", "a", "n", "g", "h", "a", "i">>,
        codes |-> <<<<"P", "V", "G">>, <<"S", "H", "A">>>>],
       [city |-> <<"h", "o", "n", "g", " ", "k", "o", "n", "g">>,
        codes |-> <<<<"H", "K", "G">>>>],
       [city |-> <<"s", "i", "n", "g", "a", "p", "o", "r", "e">>,
        codes |-> <<<<"S", "I", "N">>>>],
       [city |-> <<"d", "u", "b", "a", "i">>,
        codes |-> <<<<"D", "X", "B">>>>],
       [city |-> <<"m", "u", "m", "b", "a", "i">>,
        codes |-> <<<<"B", "O", "M">>>>],
       [city |-> <<"d", "e", "l", "h", "i">>,
        codes |-> <<<<"D", "E", "L">>>>],
       [city |-> <<"b", "a", "n", "g", "k", "o", "k">>,
        codes |-> <<<<"B", "K", "K">>>>],
       [city |-> <<"s", "e", "o", "u", "l">>,
        codes |-> <<<<"I", "C", "N">>, <<"G", "M", "P">>>>],
       [city |-> <<"k", "u", "a", "l", "a", " ", "l", "u", "m", "p", "u", "r">>,
        codes |-> <<<<"K", "U", "L">>>>],
       [city |-> <<"m", "e", "l", "b", "o", "u", "r", "n", "e">>,
        codes |-> <<<<"M", "E", "L">>>>],
       [city |-> <<"s", "y", "d", "n", "e", "y">>,
        codes |-> <<<<"S", "Y", "D">>>>] >>

Cities == {COMMON_AIRPORTS[i].city : i \in DOMAIN COMMON_AIRPORTS}

\* /^[A-Z]{3}$/.test(s)
IsAirportCode(s) == Len(s) = 3 /\ \A i \in 1..3 : s[i] \in Range(UpperLetters)

\* The condition of the table scan for one entry.
CityMatches(normalized, city) ==
    includes(normalized, city) \/ includes(city, normalized)

\* The first table entry, in iteration order, that matches (0: none).
FirstMatch(normalized) ==
    IF \E i \in DOMAIN COMMON_AIRPORTS :
           CityMatches(normalized, COMMON_AIRPORTS[i].city)
    THEN CHOOSE i \in DOMAIN COMMON_AIRPORTS :
           /\ CityMatches(normalized, COMMON_AIRPORTS[i].city)
           /\ \A j \in 1..(i - 1) :
                  ~CityMatches(normalized, COMMON_AIRPORTS[j].city)
    ELSE 0

\* findAirportCode with the table scanned before the code pattern is tried.
findAirportCode_TableFirst(input) ==
    LET normalized == trim(toLowerCase(input))
    IN  IF FirstMatch(normalized) # 0
        THEN COMMON_AIRPORTS[FirstMatch(normalized)].codes[1]
        ELSE IF IsAirportCode(toUpperCase(input))
             THEN toUpperCase(input)
             ELSE null

findAirportCode(input) ==
    LET normalized == trim(toLowerCase(input))
    IN  IF IsAirportCode(toUpperCase(input))
        THEN toUpperCase(input)
        ELSE IF FirstMatch(normalized) # 0
             THEN COMMON_AIRPORTS[FirstMatch(normalized)].codes[1]
             ELSE null

\* ------------------------------------------------------------------------
\* Optional values and dates
\* ------------------------------------------------------------------------

\* undefined, and a defined value v.
None == <<>>

Some(v) == <<v>>

IsDigit(c) == c \in Range(Digits)

DigitVal(c) == (CHOOSE i \in DOMAIN Digits : Digits[i] = c) - 1

\* The number a string of digits denotes.
RECURSIVE Num(_)
Num(s) ==
    IF s = <<>> THEN 0
    ELSE 10 * Num(SubSeq(s, 1, Len(s) - 1)) + DigitVal(s[Len(s)])

\* The pattern without its anchors, /\d{4}-\d{2}-\d{2}/.test(s): a date
\* anywhere in the string is enough.
MatchesDatePattern_Unanchored(s) ==
    \E k \in 0..(Len(s) - 10) :
        /\ \A i \in {1, 2, 3, 4, 6, 7, 9, 10} : IsDigit(s[k + i])
        /\ s[k + 5] = "-"
        /\ s[k + 8] = "-"

\* /^\d{4}-\d{2}-\d{2}$/.test(s)
MatchesDatePattern(s) ==
    /\ Len(s) = 10
    /\ \A i \in {1, 2, 3, 4, 6, 7, 9, 10} : IsDigit(s[i])
    /\ s[5] = "-"
    /\ s[8] = "-"

YearOf(s) == Num(SubSeq(s, 1, 4))

MonthOf(s) == Num(SubSeq(s, 6, 7))

DayOf(s) == Num(SubSeq(s, 9, 10))

IsLeap(y) == (y % 4 = 0 /\ y % 100 # 0) \/ y % 400 = 0

DaysInMonth(y, m) ==
    IF m = 2 THEN (IF IsLeap(y) THEN 29 ELSE 28)
    ELSE IF m \in {4, 6, 9, 11} THEN 30 ELSE 31

RECURSIVE DaysBeforeMonth(_, _)
DaysBeforeMonth(y, m) ==
    IF m <= 1 THEN 0 ELSE DaysBeforeMonth(y, m - 1) + DaysInMonth(y, m - 1)

DaysBeforeYear(y) ==
    365 * y + ((y + 3) \div 4) - ((y + 99) \div 100) + ((y + 399) \div 400)

\* The day a Date object stands on, as a day count (MakeDay): a day of the
\* month past the month's end runs on into the next month.
MakeDay(y, m, d) == DaysBeforeYear(y) + DaysBeforeMonth(y, m) + d

\* Date.parse of a string that matches the date pattern (with or without
\* the 'T12:00:00' suffix): NaN when the month is not 01..12 or the day is
\* not 01..31; the engine (V8) checks the day against 31, not against the
\* month's length.
NaN == -1

DateParse(s) ==
    IF MonthOf(s) \in 1..12 /\ DayOf(s) \in 1..31
    THEN MakeDay(YearOf(s), MonthOf(s), DayOf(s))
    ELSE NaN

\* validateDate(dateInput) with the clock on day `now`: the input itself,
\* or null.  The date is taken at local noon and today at local midnight,
\* so `date < today` compares the two days.
validateDate(dateInput, now) ==
    IF ~MatchesDatePattern(dateInput) THEN null
    ELSE IF DateParse(dateInput) = NaN THEN null
    ELSE IF DateParse(dateInput) < now THEN null
    ELSE dateInput

convertTravelClass(travelClass) ==
    CASE travelClass = "economy" -> 1
      [] travelClass = "premium_economy" -> 2
      [] travelClass = "business" -> 3
      [] travelClass = "first" -> 4

\* ------------------------------------------------------------------------
\* JSON values of the upstream response
\* ------------------------------------------------------------------------

\* A field's value: absent (no such key), null, a string, a number or an
\* object; v names the value.
Absent == [t |-> "absent", v |-> ""]

JNull == [t |-> "null", v |-> ""]

Str(s) == [t |-> "string", v |-> s]

NumV(s) == [t |-> "number", v |-> s]

Obj(s) == [t |-> "object", v |-> s]

\* JavaScript truthiness of a field's value.
Truthy(x) ==
    CASE x.t = "string" -> x.v # ""
      [] x.t = "number" -> x.v # "0"
      [] x.t = "object" -> TRUE
      [] OTHER -> FALSE

\* a || b
Or(a, b) == IF Truthy(a) THEN a ELSE b

\* The fields of a flight option or segment that the normaliser reads.
Fields ==
    {"departure_airport", "arrival_airport", "airline", "flight_number",
     "travel_class"}

IdentFields == {"departure_airport", "arrival_airport", "airline"}

\* FlightSchema / FlightSegmentSchema: the type each field must have when
\* it is present (every field is .optional()).
SchemaType(field) ==
    IF field \in {"departure_airport", "arrival_airport"}
    THEN "object" ELSE "string"

FieldValid(field, x) == x.t = "absent" \/ x.t = SchemaType(field)

NoFields == [field \in Fields |-> Absent]

\* A flight segment: an object with fields, or a value of another type.
Segment(f) == [t |-> "object", f |-> f]

NonObject(type) == [t |-> type, f |-> NoFields]

\* The value of an option's `flights` key.
NoFlights == [t |-> "absent", segs |-> <<>>]

FlightsArray(segs) == [t |-> "array", segs |-> segs]

FlightsOther(type) == [t |-> type, segs |-> <<>>]

\* flight.flights (as a condition): arrays and non-empty strings are truthy.
FlightsTruthy(fl) == fl.t \in {"array", "string"}

\* flight.flights && Array.isArray(flight.flights) && flight.flights.length > 0
HasSegments(fl) == FlightsTruthy(fl) /\ fl.t = "array" /\ Len(fl.segs) > 0

\* An entry of best_flights / other_flights: an object (an option) with a
\* key the schema does not name (id, kept by passthrough and by the spread),
\* or a value of another type.
Option(id, flights, f) ==
    [t |-> "object", id |-> id, flights |-> flights, f |-> f]

NonOption(type) ==
    [t |-> type, id |-> 0, flights |-> NoFlights, f |-> NoFields]

\* FlightSegmentSchema.parse succeeds on a segment.
ValidSegment(seg) ==
    seg.t = "object" /\ \A field \in Fields : FieldValid(field, seg.f[field])

\* FlightSchema.parse succeeds on an entry.
ValidOption(o) ==
    /\ o.t = "object"
    /\ \/ o.flights.t = "absent"
       \/ /\ o.flights.t = "array"
          /\ \A i \in DOMAIN o.flights.segs : ValidSegment(o.flights.segs[i])
    /\ \A field \in Fields : FieldValid(field, o.f[field])

\* The value of best_flights / other_flights in the raw body.
NoList == [t |-> "absent", items |-> <<>>]

ListOf(items) == [t |-> "array", items |-> items]

ListOther(type) == [t |-> type, items |-> <<>>]

ValidList(l) ==
    \/ l.t = "absent"
    \/ l.t = "array" /\ \A i \in DOMAIN l.items : ValidOption(l.items[i])

\* search_metadata: absent, null, a string, or an object whose
\* google_flights_url is the field value url.
Meta(type, url) == [t |-> type, url |-> url]

ValidMeta(m) ==
    \/ m.t = "absent"
    \/ m.t = "object" /\ m.url.t \in {"absent", "string"}

\* price_insights is an optional object.
ValidInsights(x) == x.t \in {"absent", "object"}

\* The parsed body (rawData): an object with the keys the client reads, or
\* a JSON value of another type.
Body(best, other, insights, meta) ==
    [t |-> "object", best_flights |-> best, other_flights |-> other,
     price_insights |-> insights, search_metadata |-> meta]

NonObjectBody(type) ==
    [t |-> type, best_flights |-> NoList, other_flights |-> NoList,
     price_insights |-> Absent, search_metadata |-> Meta("absent", Absent)]

\* rawData as a condition: null, 0, "" and false are falsy.
BodyTruthy(b) == b.t \in {"object", "array", "number", "string"}

\* FlightSearchResultSchema.parse(rawData) succeeds.
SchemaAccepts(b) ==
    /\ b.t = "object"
    /\ ValidList(b.best_flights)
    /\ ValidList(b.other_flights)
    /\ ValidInsights(b.price_insights)
    /\ ValidMeta(b.search_metadata)

\* Array.prototype.slice(0, n)
Slice(s, n) == SubSeq(s, 1, IF Len(s) < n THEN Len(s) ELSE n)

\* ------------------------------------------------------------------------
\* SerpApiService.searchFlights: strict pass, pruning, fallback
\* ------------------------------------------------------------------------

\* The callback going on to the option's own fields when the first
\* segment has none of the three.
KeepInStrictPass_ThenFlat(flight) ==
    \/ /\ HasSegments(flight.flights)
       /\ flight.flights.segs[1].t = "object"
       /\ Truthy(Or(flight.flights.segs[1].f["departure_airport"],
                    Or(flight.flights.segs[1].f["arrival_airport"],
                       flight.flights.segs[1].f["airline"])))
    \/ Truthy(Or(flight.f["departure_airport"],
                 Or(flight.f["arrival_airport"], flight.f["airline"])))

\* The callback of the pruning filter on a validated option.
KeepInStrictPass(flight) ==
    IF HasSegments(flight.flights)
    THEN LET firstSegment == flight.flights.segs[1]
         IN  /\ firstSegment.t = "object"
             /\ Truthy(Or(firstSegment.f["departure_airport"],
                          Or(firstSegment.f["arrival_airport"],
                             firstSegment.f["airline"])))
    ELSE Truthy(Or(flight.f["departure_airport"],
                   Or(flight.f["arrival_airport"], flight.f["airline"])))

\* The filter with a callback that also looks at the place in the list,
\* (flight, i) => i > 0 && ...: the first entry never passes.
Prune_SkipsFirst(l) ==
    IF l.t = "absent" THEN None
    ELSE IF l.items = <<>> THEN Some(<<>>)
    ELSE Some(SelectSeq(Tail(l.items), KeepInStrictPass))

\* validatedData.best_flights / other_flights after the filter: an absent
\* list stays absent.
Prune(l) ==
    IF l.t = "absent" THEN None
    ELSE Some(SelectSeq(l.items, KeepInStrictPass))

\* The hardcoded defaults of the fallback.
Default(field) ==
    CASE field \in {"departure_airport", "arrival_airport"} -> Obj("Unknown")
      [] field = "airline" -> Str("Unknown Airline")
      [] field = "flight_number" -> Str("N/A")
      [] field = "travel_class" -> Str("economy")

\* flightInfo: the first segment when the option has segments, else the
\* option itself.
FlightInfo(flight) ==
    IF HasSegments(flight.flights)
    THEN flight.flights.segs[1]
    ELSE [t |-> flight.t, f |-> flight.f]

\* Reading a property of flightInfo throws when flightInfo is null.
InfoThrows(flight) == FlightInfo(flight).t = "null"

\* One field of the object literal that the map callback returns:
\*   field: flightInfo.field || flight.field || default, ...flight
\* the later spread of the option sets every key the option has itself.
ReconstructField(flight, field) ==
    LET computed == Or(FlightInfo(flight).f[field],
                       Or(flight.f[field], Default(field)))
    IN  IF flight.f[field].t # "absent" THEN flight.f[field] ELSE computed

\* The object the map callback returns for one raw entry.
Reconstruct(flight) ==
    [t |-> "object",
     id |-> flight.id,
     flights |-> IF FlightsTruthy(flight.flights)
                 THEN flight.flights ELSE NoFlights,
     f |-> [field \in Fields |-> ReconstructField(flight, field)]]

\* flight && typeof flight === 'object'
IsObjectEntry(flight) == flight.t \in {"object", "array"}

FallbackLimit == 5

\* The two steps the other way round, .slice(0, 5).filter(...): the
\* object-valued ones among the first FallbackLimit entries.
Selected_SliceFirst(l) ==
    IF l.t # "array" THEN <<>>
    ELSE SelectSeq(Slice(l.items, FallbackLimit), IsObjectEntry)

\* The entries cleanFlights maps: the first FallbackLimit object-valued ones.
Selected(l) ==
    IF l.t # "array" THEN <<>>
    ELSE Slice(SelectSeq(l.items, IsObjectEntry), FallbackLimit)

\* cleanFlights(rawData.x || []) throws when the map callback does.
CleanThrows(l) ==
    \E i \in DOMAIN Selected(l) : InfoThrows(Selected(l)[i])

cleanFlights(l) ==
    [i \in DOMAIN Selected(l) |-> Reconstruct(Selected(l)[i])]

DefaultUrl == Str("https://www.google.com/travel/flights")

\* rawData.search_metadata?.google_flights_url || default
FallbackUrl(m) ==
    IF m.t = "object" THEN Or(m.url, DefaultUrl) ELSE DefaultUrl

\* An error message: its literal text and the text the upstream put in it.
Message(literal, dyn) == [literal |-> literal, dyn |-> dyn]

\* What a call of the service ends in: a returned result or a thrown Error.
Return(value) == [kind |-> "return", value |-> value, message |-> Message("", <<>>)]

NoValue ==
    [best_flights |-> None, other_flights |-> None,
     price_insights |-> Absent, search_metadata |-> Meta("absent", Absent)]

Throw(message) == [kind |-> "throw", value |-> NoValue, message |-> message]

\* The result of the strict pass (validatedData after pruning).
StrictResult(b) ==
    [best_flights |-> Prune(b.best_flights),
     other_flights |-> Prune(b.other_flights),
     price_insights |-> b.price_insights,
     search_metadata |-> b.search_metadata]

\* The "minimal safe structure" of the fallback.
FallbackResult(b) ==
    [best_flights |-> Some(cleanFlights(b.best_flights)),
     other_flights |-> Some(cleanFlights(b.other_flights)),
     price_insights |->
         IF Truthy(b.price_insights) THEN b.price_insights ELSE Absent,
     search_metadata |-> Meta("object", FallbackUrl(b.search_metadata))]

\* String(n) of a natural number.
RECURSIVE ToDigits(_)
ToDigits(n) ==
    IF n < 10 THEN <<Digits[n + 1]>>
    ELSE ToDigits(n \div 10) \o <<Digits[(n % 10) + 1]>>

\* The upstream's behaviour for one request.
NetworkError == [kind |-> "network", status |-> 0, text |-> <<>>,
                 body |-> NonObjectBody("null")]

HttpError(status, text) == [kind |-> "http", status |-> status, text |-> text,
                            body |-> NonObjectBody("null")]

NotJson == [kind |-> "notjson", status |-> 200, text |-> <<>>,
            body |-> NonObjectBody("null")]

Json(body) == [kind |-> "json", status |-> 200, text |-> <<>>, body |-> body]

\* The catch block without its test for a ZodError: the reconstruction is
\* made from whatever rawData holds, and returned.
RequestFailed_Degrades(up) == Return(FallbackResult(up.body))

\* The catch block on a rejected fetch or a response that is not ok: the
\* error is no ZodError, and is thrown on under the service's prefix.
RequestFailed(up) ==
    IF up.kind = "network"
    THEN Throw(Message("Flight search failed: fetch failed", <<>>))
    ELSE Throw(Message("Flight search failed: SerpApi request failed: ",
                       ToDigits(up.status) \o <<" ">> \o up.text))

\* The try block and the catch block of searchFlights, from the response on.
ServiceOutcome(up) ==
    CASE up.kind \in {"network", "http"} -> RequestFailed(up)
      [] up.kind = "notjson" ->
           Throw(Message("Flight search failed: Unexpected token", <<>>))
      [] up.kind = "json" /\ up.body.t = "null" ->
           Throw(Message("Flight search failed: Cannot read properties of null",
                         <<>>))
      [] up.kind = "json" /\ up.body.t # "null" ->
           IF SchemaAccepts(up.body) THEN Return(StrictResult(up.body))
           ELSE IF BodyTruthy(up.body)
                   /\ ~CleanThrows(up.body.best_flights)
                   /\ ~CleanThrows(up.body.other_flights)
                THEN Return(FallbackResult(up.body))
                ELSE Throw(Message("Flight search failed: ZodError", <<>>))

\* ------------------------------------------------------------------------
\* The searchFlights tool (execute)
\* ------------------------------------------------------------------------

Placeholder == "your_serpapi_key_here"

\* !key || key === 'your_serpapi_key_here' (an unset key reads as "").
ConfigMissing(key) == key = "" \/ key = Placeholder

\* A structured error object {error, details?, suggestions?}: the error
\* text is a literal with the values interpolated into it.
Text(literal, args) == [literal |-> literal, args |-> args]

NoPayload ==
    [searchParameters |-> <<>>, priceInsights |-> Absent,
     bestFlights |-> None, otherFlights |-> None, totalResults |-> 0,
     searchUrl |-> Absent]

ErrorResult(error, details, suggestions) ==
    [kind |-> "error", error |-> error, details |-> details,
     suggestions |-> suggestions, payload |-> NoPayload]

SuccessResult(payload) ==
    [kind |-> "success", error |-> Text("", <<>>), details |-> None,
     suggestions |-> None, payload |-> payload]

\* An Error that leaves the tool instead of a result.
Thrown(message) ==
    [kind |-> "thrown", error |-> Text("", <<>>), details |-> Some(message),
     suggestions |-> None, payload |-> NoPayload]

NoResult ==
    [kind |-> "none", error |-> Text("", <<>>), details |-> None,
     suggestions |-> None, payload |-> NoPayload]

AirportError(input, example) ==
    ErrorResult(
        Text("Could not find airport for \"{}\". Please provide a valid city name or 3-letter airport code.",
             <<input>>),
        None,
        Some(example))

DateError(which, input) ==
    ErrorResult(
        Text(which, <<input>>),
        None,
        Some("The date must be in the format YYYY-MM-DD and cannot be in the past."))

OrderError(returnDate, departureDate) ==
    ErrorResult(
        Text("Return date \"{}\" must be after departure date \"{}\".",
             <<returnDate, departureDate>>),
        None,
        Some("Make sure your return date is later than your departure date."))

ConfigError ==
    ErrorResult(
        Text("Flight search is not configured. SerpApi API key is missing.", <<>>),
        Some(Message("Please set SERPAPI_KEY in your .env.local file", <<>>)),
        Some("Setup Instructions"))

\* The tool's input.
Args(origin, destination, departureDate, returnDate, passengers, travelClass) ==
    [origin |-> origin, destination |-> destination,
     departureDate |-> departureDate, returnDate |-> returnDate,
     passengers |-> passengers, travelClass |-> travelClass]

\* validatedReturnDate: undefined when returnDate is undefined or "".
Supplied(returnDate) == returnDate # None /\ returnDate[1] # <<>>

\* searchParams with the trip type taken from the argument as it came in,
\* not from the validated return date.
SearchParams_TypeFromArgument(a) ==
    [departure_id |-> findAirportCode(a.origin),
     arrival_id |-> findAirportCode(a.destination),
     outbound_date |-> a.departureDate,
     return_date |-> IF Supplied(a.returnDate) THEN a.returnDate ELSE None,
     travel_class |-> IF a.travelClass # None
                      THEN Some(convertTravelClass(a.travelClass[1])) ELSE None,
     adults |-> IF a.passengers # None /\ a.passengers[1] # 0
                   /\ a.passengers[1] > 0
                THEN a.passengers ELSE None,
     type |-> IF a.returnDate # None THEN 1 ELSE 2]

\* The object searchParams that execute hands to the service.
SearchParams(a) ==
    [departure_id |-> findAirportCode(a.origin),
     arrival_id |-> findAirportCode(a.destination),
     outbound_date |-> a.departureDate,
     return_date |-> IF Supplied(a.returnDate) THEN a.returnDate ELSE None,
     travel_class |-> IF a.travelClass # None
                      THEN Some(convertTravelClass(a.travelClass[1])) ELSE None,
     adults |-> IF a.passengers # None /\ a.passengers[1] # 0
                   /\ a.passengers[1] > 0
                THEN a.passengers ELSE None,
     type |-> IF Supplied(a.returnDate) THEN 1 ELSE 2]

\* returnDateTime < departureDateTime, which lets a return on the day of
\* departure through.
ReturnNotAfter_Strict(returnDate, departureDate) ==
    DateParse(returnDate) < DateParse(departureDate)

\* returnDateTime <= departureDateTime
ReturnNotAfter(returnDate, departureDate) ==
    DateParse(returnDate) <= DateParse(departureDate)

\* execute up to the call of the service: the error object it returns, or
\* NoResult when it goes on to search.
Validate(a, key, today) ==
    IF findAirportCode(a.origin) = null
    THEN AirportError(a.origin,
             "Try cities like \"New York\", \"Los Angeles\", or airport codes like \"JFK\", \"LAX\".")
    ELSE IF findAirportCode(a.destination) = null
    THEN AirportError(a.destination,
             "Try cities like \"London\", \"Tokyo\", or airport codes like \"LHR\", \"NRT\".")
    ELSE IF validateDate(a.departureDate, today) = null
    THEN DateError("Invalid departure date \"{}\". Please provide a future date in YYYY-MM-DD format.",
                   a.departureDate)
    ELSE IF Supplied(a.returnDate) /\ validateDate(a.returnDate[1], today) = null
    THEN DateError("Invalid return date \"{}\". Please provide a future date in YYYY-MM-DD format.",
                   a.returnDate[1])
    ELSE IF Supplied(a.returnDate)
            /\ ReturnNotAfter(a.returnDate[1], a.departureDate)
    THEN OrderError(a.returnDate[1], a.departureDate)
    ELSE IF ConfigMissing(key)
    THEN ConfigError
    ELSE NoResult

\* The query string the service builds (URLSearchParams): optional
\* parameters are set only when they are truthy.
BuildQuery(p, key) ==
    [engine |-> "google_flights",
     api_key |-> key,
     departure_id |-> p.departure_id,
     arrival_id |-> p.arrival_id,
     outbound_date |-> p.outbound_date,
     return_date |-> IF p.return_date # None /\ p.return_date[1] # <<>>
                     THEN p.return_date ELSE None,
     travel_class |-> IF p.travel_class # None /\ p.travel_class[1] # 0
                      THEN Some(ToDigits(p.travel_class[1])) ELSE None,
     adults |-> IF p.adults # None /\ p.adults[1] # 0 /\ p.adults[1] > 0
                THEN Some(ToDigits(p.adults[1])) ELSE None,
     type |-> IF p.type # 0 THEN Some(ToDigits(p.type)) ELSE None]

BestLimit == 3

OtherLimit == 5

\* array?.slice(0, n)
OptSlice(list, n) == IF list = None THEN None ELSE Some(Slice(list[1], n))

\* array?.length || 0
OptLen(list) == IF list = None THEN 0 ELSE Len(list[1])

\* The payload execute builds from the service's result.
Payload(a, r) ==
    [searchParameters |->
         [origin |-> <<a.origin, findAirportCode(a.origin)>>,
          destination |-> <<a.destination, findAirportCode(a.destination)>>,
          departureDate |-> a.departureDate,
          returnDate |-> IF Supplied(a.returnDate) THEN a.returnDate ELSE None,
          passengers |-> IF a.passengers # None /\ a.passengers[1] # 0
                         THEN a.passengers[1] ELSE 1,
          travelClass |-> IF a.travelClass # None
                          THEN a.travelClass[1] ELSE "economy",
          tripType |-> IF Supplied(a.returnDate)
                       THEN "round-trip" ELSE "one-way"],
     priceInsights |-> r.price_insights,
     bestFlights |-> OptSlice(r.best_flights, BestLimit),
     otherFlights |-> OptSlice(r.other_flights, OtherLimit),
     totalResults |-> OptLen(r.best_flights) + OptLen(r.other_flights),
     searchUrl |-> r.search_metadata.url]

KeyNeedle == <<"S", "E", "R", "P", "A", "P", "I", "_", "K", "E", "Y">>

BadRequestNeedle == <<"4", "0", "0">>

\* error.message.includes(needle): none of the literal texts of the
\* messages holds either needle, the upstream's text may.
MessageIncludes(m, needle) == includes(m.dyn, needle)

\* The catch block of execute.
Catch(m) ==
    IF MessageIncludes(m, KeyNeedle)
    THEN ErrorResult(
             Text("Flight search is not configured properly. Please contact support.", <<>>),
             Some(Message("SerpApi API key is missing or invalid", <<>>)),
             Some("The administrator needs to set up the SERPAPI_KEY environment variable."))
    ELSE IF MessageIncludes(m, BadRequestNeedle)
    THEN ErrorResult(
             Text("Invalid flight search parameters. Please check your search criteria.", <<>>),
             Some(m),
             Some("Try searching with different cities, valid dates (YYYY-MM-DD format), or check airport codes."))
    ELSE ErrorResult(
             Text("Sorry, I encountered an error while searching for flights. Please try again or check your search parameters.", <<>>),
             Some(m),
             None)

\* execute without its catch block: the service's Error leaves the tool.
Complete_Uncaught(a, outcome) ==
    IF outcome.kind = "throw" THEN Thrown(outcome.message)
    ELSE IF outcome.value.search_metadata.t # "object"
    THEN Thrown(Message("Cannot read properties of undefined", <<>>))
    ELSE SuccessResult(Payload(a, outcome.value))

\* execute from the service's outcome on: reading google_flights_url of an
\* absent search_metadata throws inside the try block.
Complete(a, outcome) ==
    IF outcome.kind = "throw" THEN Catch(outcome.message)
    ELSE IF outcome.value.search_metadata.t # "object"
    THEN Catch(Message("Cannot read properties of undefined", <<>>))
    ELSE SuccessResult(Payload(a, outcome.value))

\* ------------------------------------------------------------------------
\* State
\* ------------------------------------------------------------------------

VARIABLES
    env,       \* process.env.SERPAPI_KEY ("" when unset)
    now,       \* the day the clock stands on
    module,    \* the service module: "unloaded", "loaded" or "failed"
    apiKey,    \* serpApiService.apiKey
    pc,        \* the tool call: "idle", "fetching" or "done"
    args,      \* the input of the tool call
    query,     \* the query of the HTTP request of this call, if one was sent
    fetches,   \* the HTTP requests sent by this call
    upstream,  \* the upstream's answer to the request
    outcome,   \* what serpApiService.searchFlights ended in
    result,    \* what the tool call ended in
    rInput,    \* the last input given to findAirportCode on its own
    rCode      \* and what it returned

vars == <<env, now, module, apiKey, pc, args, query, fetches, upstream,
          outcome, result, rInput, rCode>>

callVars == <<pc, args, query, fetches, upstream, outcome, result>>

resolverVars == <<rInput, rCode>>

\* ------------------------------------------------------------------------
\* Inputs
\* ------------------------------------------------------------------------

\* A number as a string of `width` digits, zero-padded.
RECURSIVE Pad(_, _)
Pad(n, width) ==
    IF width = 0 THEN <<>>
    ELSE Pad(n \div 10, width - 1) \o <<Digits[(n % 10) + 1]>>

\* The date string YYYY-MM-DD.
Fmt(y, m, d) == Pad(y, 4) \o <<"-">> \o Pad(m, 2) \o <<"-">> \o Pad(d, 2)

EnvKeys == {"", Placeholder, "k3y"}

Today == MakeDay(2026, 11, 2)

NoArgs == Args(<<>>, <<>>, <<>>, None, None, None)

NoOutcome == [kind |-> "none", value |-> NoValue, message |-> Message("", <<>>)]

NoUpstream == [kind |-> "none", status |-> 0, text |-> <<>>,
               body |-> NonObjectBody("null")]

Unset == <<"unset">>

\* The tool's inputs.
Origins ==
    {<<"S", "F", "O">>, <<"t", "o", "k", "y", "o">>, <<"o", "z">>, <<>>,
     <<" ">>}

Destinations == {<<"N", "R", "T">>, <<"o", "z">>}

DateInputs ==
    {Fmt(2026, 11, 1), Fmt(2026, 11, 2), Fmt(2026, 11, 3), Fmt(2027, 2, 28),
     Fmt(2027, 2, 30), Fmt(2027, 3, 1), Fmt(2026, 13, 1), Fmt(2026, 11, 32),
     <<"2", "0", "2", "6", "-", "1", "1", "-", "3">>,
     <<"1", "1", "/", "0", "3", "/", "2", "0", "2", "6">>,
     Fmt(2026, 11, 3) \o <<" ">>}

MaxPassengers == 2

PassengerInputs == {None} \cup {Some(n) : n \in -1..MaxPassengers}

ClassInputs == {None, Some("business")}

ToolArgs ==
    {Args(o, d, dep, ret, p, tc) :
        o \in Origins, d \in Destinations, dep \in DateInputs,
        ret \in {None, Some(<<>>)} \cup {Some(r) : r \in DateInputs},
        p \in PassengerInputs, tc \in ClassInputs}

\* One well-formed input, for the runs that are about the response.
ServiceArgs ==
    {Args(<<"S", "F", "O">>, <<"N", "R", "T">>, Fmt(2026, 11, 3), ret, None, None) :
        ret \in {None, Some(Fmt(2027, 3, 1))}}

\* The upstream's texts in an error response.
ErrorTexts == {<<>>, <<"q", "u", "o", "t", "a">>, BadRequestNeedle, KeyNeedle}

Failures ==
    {NetworkError, NotJson}
        \cup {HttpError(s, t) : s \in {400, 401, 500}, t \in ErrorTexts}

\* Field values of every type; the nested ones are named N, the flat ones F.
Values(name) ==
    {Absent, JNull, Str(""), Str(name), Obj(name), NumV("7")}

\* The value of the right type for a field.
Good(field, name) ==
    IF SchemaType(field) = "object" THEN Obj(name) ELSE Str(name)

Only(field, x) == [g \in Fields |-> IF g = field THEN x ELSE Absent]

\* Options that set one field: in the first segment and flat, or flat only
\* (without a flights key, or with an empty one).
OneFieldOptions ==
    {Option(1, FlightsArray(<<Segment(Only(field, n))>>), Only(field, x)) :
        field \in Fields, n \in Values("N"), x \in Values("F")}
    \cup
    {Option(1, fl, Only(field, x)) :
        field \in Fields, fl \in {NoFlights, FlightsArray(<<>>)},
        x \in Values("F")}

\* Options that set any of the identifying fields, in the first segment
\* and flat, to values of the right type.
Some3(S, name) ==
    [g \in Fields |-> IF g \in S THEN Good(g, name) ELSE Absent]

IdentOptions ==
    {Option(1, FlightsArray(<<Segment(Some3(S, "N"))>>), Some3(T, "F")) :
        S \in SUBSET IdentFields, T \in SUBSET IdentFields}
    \cup
    {Option(1, NoFlights, Some3(T, "F")) : T \in SUBSET IdentFields}

\* Options whose flights key or first segment is not what the schema names,
\* and entries that are no objects.
OddEntries ==
    {Option(1, fl, Some3({"airline"}, "F")) :
        fl \in {FlightsOther("null"), FlightsOther("string"),
                FlightsArray(<<NonObject("null")>>),
                FlightsArray(<<NonObject("number")>>),
                FlightsArray(<<Segment(NoFields), Segment(Some3({"airline"}, "N"))>>)}}
    \cup {NonOption("null"), NonOption("number"), NonOption("array")}

RichEntries == OneFieldOptions \cup IdentOptions \cup OddEntries

\* The three kinds of entry of the longer lists: an option with an airline,
\* an option with nothing that identifies it, and null.
Plain(kind, id) ==
    CASE kind = 1 -> Option(id, NoFlights, Some3({"airline"}, "F"))
      [] kind = 2 -> Option(id, NoFlights, NoFields)
      [] kind = 3 -> NonOption("null")

MaxFlights == 6

PlainLists ==
    UNION {{[i \in 1..n |-> Plain(k[i], i)] : k \in [1..n -> 1..3]} :
              n \in 0..MaxFlights}

InsightValues == {Absent, Obj("insights"), Str("n/a")}

MetaValues ==
    {Meta("absent", Absent), Meta("object", Str("https://flights/1")),
     Meta("object", Absent)}

\* The bodies of the runs that are about the response.
ServiceBodies ==
    {Body(ListOf(<<e>>), other, ins, Meta("object", Str("https://flights/1"))) :
        e \in RichEntries,
        other \in {NoList, ListOf(<<Plain(2, 1)>>)},
        ins \in InsightValues}
    \cup
    {Body(ListOf(l), other, ins, meta) :
        l \in PlainLists,
        other \in {NoList, ListOf(<<Plain(1, 1), Plain(2, 2)>>)},
        ins \in {Absent, Str("n/a")},
        meta \in {Meta("object", Str("https://flights/1"))}}
    \cup
    {Body(best, ListOf(l), Absent, meta) :
        best \in {NoList, ListOther("string")},
        l \in {p \in PlainLists : Len(p) <= 2},
        meta \in MetaValues}
    \cup
    {NonObjectBody(type) : type \in {"null", "zero", "number", "string", "array"}}

ServiceUpstreams == Failures \cup {Json(b) : b \in ServiceBodies}

\* The bodies of the runs that are about the tool's input.
ToolBodies ==
    {Body(ListOf(l), other, ins, meta) :
        l \in {p \in PlainLists : Len(p) <= 1},
        other \in {NoList, ListOf(<<Plain(1, 1), Plain(2, 2)>>)},
        ins \in {Absent, Str("n/a")},
        meta \in MetaValues}
    \cup
    {NonObjectBody(type) : type \in {"null", "zero", "number"}}

ToolUpstreams == Failures \cup {Json(b) : b \in ToolBodies}

\* The inputs findAirportCode is given on its own: the table's cities as
\* they are, in capitals and between spaces, every three-character string
\* over a few letters, a digit and a space, and some strings of other lengths.
MaxPad == 1

Spaces(n) == [i \in 1..n |-> " "]

Triples == [1..3 -> {"n", "y", "c", "N", "A", "1", " "}]

ResolverInputs ==
    Cities
    \cup {toUpperCase(c) : c \in Cities}
    \cup {Spaces(n) \o c \o Spaces(n) : c \in Cities, n \in 1..MaxPad}
    \cup Triples
    \cup {<<>>, <<"o", "z">>, <<"a">>, <<"J", "F", "K", "X">>,
          <<"n", "e", "w", " ", "y", "o", "r", "k", " ", "c", "i", "t", "y">>}

\* ------------------------------------------------------------------------
\* Behaviour
\* ------------------------------------------------------------------------

InitCommon ==
    /\ now = Today
    /\ apiKey = ""
    /\ pc = "idle"
    /\ args = NoArgs
    /\ query = None
    /\ fetches = 0
    /\ upstream = NoUpstream
    /\ outcome = NoOutcome
    /\ result = NoResult
    /\ rInput = Unset
    /\ rCode = Unset

\* The process starts with any credential and the service module not yet
\* evaluated.
Init ==
    /\ env \in EnvKeys
    /\ module = "unloaded"
    /\ InitCommon

\* The constructor of SerpApiService, run when the module is evaluated
\* (export const serpApiService = new SerpApiService()): it throws on a
\* missing or placeholder key, and the import of the tool fails with it.
Construct(key) ==
    IF ConfigMissing(key)
    THEN [module |-> "failed", apiKey |-> key,
          result |-> Thrown(Message("SERPAPI_KEY environment variable is required and must be a valid API key", <<>>))]
    ELSE [module |-> "loaded", apiKey |-> key, result |-> NoResult]

LoadModule ==
    /\ module = "unloaded"
    /\ module' = Construct(env).module
    /\ apiKey' = Construct(env).apiKey
    /\ result' = Construct(env).result
    /\ UNCHANGED <<env, now, pc, args, query, fetches, upstream, outcome,
                   rInput, rCode>>

\* process.env is set or cleared while the process runs.
EnvChange ==
    /\ pc = "idle"
    /\ module # "unloaded"
    /\ \E key \in EnvKeys : key # env /\ env' = key
    /\ UNCHANGED <<now, module, apiKey, callVars, resolverVars>>

\* execute up to its await: it returns an error object, or the service
\* sends the request.
Execute(inputs) ==
    /\ pc = "idle"
    /\ module = "loaded"
    /\ \E a \in inputs :
          /\ args' = a
          /\ IF Validate(a, env, now) # NoResult
             THEN /\ result' = Validate(a, env, now)
                  /\ pc' = "done"
                  /\ UNCHANGED <<query, fetches>>
             ELSE /\ query' = Some(BuildQuery(SearchParams(a), apiKey))
                  /\ fetches' = fetches + 1
                  /\ result' = NoResult
                  /\ pc' = "fetching"
    /\ UNCHANGED <<env, now, module, apiKey, upstream, outcome, resolverVars>>

\* The upstream answers; the service and then execute run to their end.
Respond(answers) ==
    /\ pc = "fetching"
    /\ \E up \in answers :
          /\ upstream' = up
          /\ outcome' = ServiceOutcome(up)
          /\ result' = Complete(args, ServiceOutcome(up))
    /\ pc' = "done"
    /\ UNCHANGED <<env, now, module, apiKey, args, query, fetches,
                   resolverVars>>

\* The call is over; the tool waits for the next one.
Finish ==
    /\ pc = "done"
    /\ pc' = "idle"
    /\ args' = NoArgs
    /\ query' = None
    /\ fetches' = 0
    /\ upstream' = NoUpstream
    /\ outcome' = NoOutcome
    /\ result' = NoResult
    /\ UNCHANGED <<env, now, module, apiKey, resolverVars>>

Next ==
    \/ LoadModule
    \/ EnvChange
    \/ Execute(ToolArgs)
    \/ Respond(ToolUpstreams)
    \/ Finish

Spec == Init /\ [][Next]_vars

\* The response normaliser, under one well-formed input and every response.
NextService ==
    \/ LoadModule
    \/ EnvChange
    \/ Execute(ServiceArgs)
    \/ Respond(ServiceUpstreams)
    \/ Finish

SpecService == Init /\ [][NextService]_vars

\* findAirportCode on its own.
InitResolver ==
    /\ env = "k3y"
    /\ module = "loaded"
    /\ now = Today
    /\ apiKey = "k3y"
    /\ pc = "idle"
    /\ args = NoArgs
    /\ query = None
    /\ fetches = 0
    /\ upstream = NoUpstream
    /\ outcome = NoOutcome
    /\ result = NoResult
    /\ rInput \in ResolverInputs
    /\ rCode = Unset

Resolve ==
    /\ rCode = Unset
    /\ rCode' = findAirportCode(rInput)
    /\ UNCHANGED <<env, now, module, apiKey, callVars, rInput>>

NextResolver == Resolve

SpecResolver == InitResolver /\ [][NextResolver]_vars

\* ------------------------------------------------------------------------
\* Properties
\* ------------------------------------------------------------------------

\* The first code the table lists for a city that is one of its keys.
FirstCodeOf(city) ==
    COMMON_AIRPORTS[CHOOSE i \in DOMAIN COMMON_AIRPORTS :
                        COMMON_AIRPORTS[i].city = city].codes[1]

Letters == Range(LowerLetters) \cup Range(UpperLetters)

ThreeLetters(s) == Len(s) = 3 /\ \A i \in 1..3 : s[i] \in Letters

\* C1: for every city name that is a key of COMMON_AIRPORTS,
\* findAirportCode returns the first code listed for that key.
C1_CityKeyGivesItsFirstCode ==
    (rCode # Unset /\ rInput \in Cities) => rCode = FirstCodeOf(rInput)

\* C2: for every input of exactly three ASCII letters, in any case,
\* findAirportCode returns the input in capitals, whatever the table
\* holds for it.
C2_ThreeLettersUppercased ==
    (rCode # Unset /\ ThreeLetters(rInput)) => rCode = toUpperCase(rInput)

\* A three-letter input that is also a key of the table ("nyc", whose
\* entry lists JFK first) has been resolved to itself in capitals.
C2_Witness ==
    /\ rInput = <<"n", "y", "c">>
    /\ rInput \in Cities
    /\ rCode = <<"N", "Y", "C">>
    /\ FirstCodeOf(rInput) # rCode

\* The configuration-error payload: the error text, and the setup guidance.
IsConfigPayload(r) ==
    /\ r.kind = "error"
    /\ r.error.literal = "Flight search is not configured. SerpApi API key is missing."
    /\ r.suggestions = Some("Setup Instructions")

\* C3: whenever the credential is missing or the placeholder, a search
\* call returns the configuration-error payload with setup guidance, for
\* every input, and no request is made.  (A call has ended, or cannot be
\* made because the module that holds the tool failed to load.)
C3_MissingCredentialGivesConfigPayload ==
    (ConfigMissing(env) /\ (pc = "done" \/ module = "failed"))
        => (IsConfigPayload(result) /\ fetches = 0)

\* C4: a missing or placeholder credential never causes a throw on the
\* path from the construction of serpApiService to the tool's result.
C4_MissingCredentialNeverThrows ==
    module # "failed" /\ result.kind # "thrown"

\* A date string names a day of the calendar.
RealDate(s) ==
    /\ MatchesDatePattern(s)
    /\ MonthOf(s) \in 1..12
    /\ DayOf(s) \in 1..DaysInMonth(YearOf(s), MonthOf(s))

CalendarDay(s) == MakeDay(YearOf(s), MonthOf(s), DayOf(s))

\* A date the tool is meant to accept: a day of the calendar, not past.
ValidDay(s) == RealDate(s) /\ CalendarDay(s) >= now

Resolvable(a) ==
    findAirportCode(a.origin) # null /\ findAirportCode(a.destination) # null

\* The call has run its validation on an input with resolvable airports,
\* a valid departure date and a well-formed return date that names a day
\* on or before the day of departure.
ReturnOnOrBefore ==
    /\ pc \in {"fetching", "done"}
    /\ Resolvable(args)
    /\ ValidDay(args.departureDate)
    /\ args.returnDate # None
    /\ RealDate(args.returnDate[1])
    /\ CalendarDay(args.returnDate[1]) <= CalendarDay(args.departureDate)

IsOrderError(r) ==
    /\ r.kind = "error"
    /\ r.error = Text("Return date \"{}\" must be after departure date \"{}\".",
                      <<args.returnDate[1], args.departureDate>>)

IsReturnDateError(r) ==
    /\ r.kind = "error"
    /\ r.error = Text("Invalid return date \"{}\". Please provide a future date in YYYY-MM-DD format.",
                      <<args.returnDate[1]>>)

\* C5 as stated: every well-formed return date on or before the
\* departure date makes the tool fail with the ordering error, and no
\* request is issued.
C5_ReturnNotAfterGivesOrderError ==
    ReturnOnOrBefore => (pc = "done" /\ IsOrderError(result) /\ fetches = 0)

\* C5 as amended: the ordering error when the return date is itself not
\* in the past, the invalid-return-date error when it is; no request is
\* issued in either case.
C5_ReturnNotAfterIsRejected ==
    ReturnOnOrBefore =>
        /\ pc = "done"
        /\ fetches = 0
        /\ IF CalendarDay(args.returnDate[1]) >= now
           THEN IsOrderError(result)
           ELSE IsReturnDateError(result)

\* A return on the day of departure itself was refused with the ordering
\* error.
C5_Witness ==
    /\ ReturnOnOrBefore
    /\ args.returnDate[1] = args.departureDate
    /\ IsOrderError(result)
    /\ fetches = 0

\* The options the service returned in a list (none when it has no list).
Returned(list) ==
    IF outcome.value[list] = None THEN <<>> ELSE outcome.value[list][1]

\* The raw entry a returned option was made from: the key id, which the
\* schema does not name, is carried over unchanged and is the entry's place
\* in the raw list.
RawEntry(list, option) == upstream.body[list].items[option.id]

Lists == {"best_flights", "other_flights"}

\* The value is there: the key exists and is not null.
HasValue(x) == x.t \notin {"absent", "null"}

\* The raw entry has a departure airport, an arrival airport or an airline
\* somewhere: flat, or in any of its segments.
IdentifiableAnywhere(e) ==
    \E field \in IdentFields :
        \/ HasValue(e.f[field])
        \/ \E j \in DOMAIN e.flights.segs : HasValue(e.flights.segs[j].f[field])

\* C6: every option in best_flights and other_flights of a result of
\* searchFlights, from the strict pass or from the fallback, has a
\* departure airport, an arrival airport or an airline in the upstream
\* data; an option with none of the three anywhere is in neither list.
C6_ReturnedOptionsAreIdentifiable ==
    outcome.kind = "return" =>
        \A list \in Lists : \A i \in DOMAIN Returned(list) :
            IdentifiableAnywhere(RawEntry(list, Returned(list)[i]))

\* The service returned the fallback reconstruction.
FellBack ==
    /\ upstream.kind = "json"
    /\ ~SchemaAccepts(upstream.body)
    /\ outcome.kind = "return"

\* The value is present: there, and not the empty string.
Present(x) == HasValue(x) /\ x # Str("")

\* What C7 says a reconstructed field is.
Preferred(e, field) ==
    LET nested == IF HasSegments(e.flights)
                  THEN e.flights.segs[1].f[field] ELSE Absent
    IN  IF Present(nested) THEN nested
        ELSE IF Present(e.f[field]) THEN e.f[field]
        ELSE Default(field)

\* C7: in the fallback each of the five fields of a reconstructed option is
\* the first segment's value when that is present, else the flat value
\* when that is present, else the default.
C7_FallbackPrefersNestedThenFlat ==
    FellBack =>
        \A list \in Lists : \A i \in DOMAIN Returned(list) :
            \A field \in Fields :
                Returned(list)[i].f[field]
                    = Preferred(RawEntry(list, Returned(list)[i]), field)

\* The failure class a finished call belongs to.
FailureClass ==
    IF fetches = 0
    THEN IF Validate(args, "k3y", now) # NoResult
         THEN "parameter-invalid" ELSE "configuration-missing"
    ELSE IF upstream.kind \in {"network", "http"}
         THEN "upstream-request-failed" ELSE "upstream-shape-invalid"

\* The class an error text names; the apology names none.
ClassNamedBy(literal) ==
    CASE literal \in
           {"Flight search is not configured. SerpApi API key is missing.",
            "Flight search is not configured properly. Please contact support."}
           -> "configuration-missing"
      [] literal \in
           {"Could not find airport for \"{}\". Please provide a valid city name or 3-letter airport code.",
            "Invalid departure date \"{}\". Please provide a future date in YYYY-MM-DD format.",
            "Invalid return date \"{}\". Please provide a future date in YYYY-MM-DD format.",
            "Return date \"{}\" must be after departure date \"{}\"."}
           -> "parameter-invalid"
      [] literal = "Invalid flight search parameters. Please check your search criteria."
           -> "upstream-request-failed"
      [] OTHER -> "none"

\* C8: each of the four failure classes (no request sent: configuration or
\* parameters; a non-2xx status; a 2xx body that cannot be used) yields a
\* result whose error field names that class; none is reported by a generic
\* message.  (Stated for upstream texts that do not name the key variable.)
C8_ErrorNamesItsFailureClass ==
    (/\ pc = "done"
     /\ result.kind = "error"
     /\ (fetches = 0 \/ upstream.kind \in {"http", "json"})
     /\ ~includes(upstream.text, KeyNeedle))
        => ClassNamedBy(result.error.literal) = FailureClass

\* The request was sent and the call failed on the upstream's answer.
UpstreamFailed ==
    /\ pc = "done"
    /\ fetches > 0
    /\ \/ upstream.kind \in {"network", "http"}
       \/ outcome.kind = "throw"

\* C9: every result made from an upstream transport failure or shape
\* failure is a structured error object that has a suggestions text.
C9_UpstreamFailureHasSuggestions ==
    UpstreamFailed => (result.kind = "error" /\ result.suggestions # None)

\* C10: execute never throws: every call that has ended has returned a
\* success payload or an error object with an error text.
C10_ExecuteReturnsResultOrError ==
    pc = "done" =>
        \/ result.kind = "success"
        \/ result.kind = "error" /\ result.error.literal # ""

\* A call whose request met a body that is not JSON ended in an error
\* object, under a credential that was cleared meanwhile or not.
C10_Witness ==
    /\ pc = "done"
    /\ upstream.kind = "notjson"
    /\ outcome.kind = "throw"
    /\ result.kind = "error"
    /\ result.details = Some(outcome.message)

\* C11: every outbound_date and return_date placed in an outgoing request
\* is a real calendar date (month 01-12, day within that month's length)
\* that is not earlier than the current day, and is the string the caller
\* wrote, unchanged.
C11_RequestDatesAreRealAndNotPast ==
    query # None =>
        /\ ValidDay(query[1].outbound_date)
        /\ query[1].outbound_date = args.departureDate
        /\ query[1].return_date # None =>
              /\ ValidDay(query[1].return_date[1])
              /\ query[1].return_date = args.returnDate

\* Exactly four digits, a hyphen, two digits, a hyphen, two digits.
FourTwoTwo(s) ==
    /\ Len(s) = 10
    /\ \A i \in 1..10 :
          IF i \in {5, 8} THEN s[i] = "-"
          ELSE s[i] \in {"0", "1", "2", "3", "4", "5", "6", "7", "8", "9"}

IsDepartureDateError(r) ==
    /\ r.kind = "error"
    /\ r.error = Text("Invalid departure date \"{}\". Please provide a future date in YYYY-MM-DD format.",
                      <<args.departureDate>>)

\* Either of the two invalid-date errors.
IsDateError(r) ==
    /\ r.kind = "error"
    /\ r.error.literal \in
          {"Invalid departure date \"{}\". Please provide a future date in YYYY-MM-DD format.",
           "Invalid return date \"{}\". Please provide a future date in YYYY-MM-DD format."}

\* The call has run its validation on an input one of whose date strings
\* is not of that form.
MalformedDeparture ==
    pc \in {"fetching", "done"} /\ ~FourTwoTwo(args.departureDate)

MalformedReturn ==
    /\ pc \in {"fetching", "done"}
    /\ args.returnDate # None
    /\ ~FourTwoTwo(args.returnDate[1])

\* C12 as stated: for every date string that is not exactly four digits, a
\* hyphen, two digits, a hyphen, two digits, validateDate returns null, and
\* the tool returns an invalid-date error without issuing a request.
C12_MalformedDateGivesDateError ==
    /\ MalformedDeparture =>
          /\ validateDate(args.departureDate, now) = null
          /\ pc = "done" /\ fetches = 0
          /\ IsDateError(result)
    /\ MalformedReturn =>
          /\ validateDate(args.returnDate[1], now) = null
          /\ pc = "done" /\ fetches = 0
          /\ IsDateError(result)

\* C12 as amended: validateDate returns null for every such string; when
\* both airports resolve, such a departure date, or such a return date that
\* is not the empty string, makes the tool return an invalid-date error (for
\* the return date when the departure date is valid) without a request.
C12_MalformedDateIsRejected ==
    /\ MalformedDeparture =>
          /\ validateDate(args.departureDate, now) = null
          /\ Resolvable(args) =>
                (pc = "done" /\ fetches = 0 /\ IsDepartureDateError(result))
    /\ MalformedReturn =>
          /\ validateDate(args.returnDate[1], now) = null
          /\ (Resolvable(args) /\ args.returnDate[1] # <<>>) =>
                /\ pc = "done" /\ fetches = 0
                /\ IsDepartureDateError(result) \/ IsReturnDateError(result)
                /\ ValidDay(args.departureDate) => IsReturnDateError(result)

\* A date followed by a space was given as the return date of a call with
\* resolvable airports and a valid departure date, and was refused.
C12_Witness ==
    /\ MalformedReturn
    /\ Resolvable(args)
    /\ ValidDay(args.departureDate)
    /\ args.returnDate[1] = Fmt(2026, 11, 3) \o <<" ">>
    /\ IsReturnDateError(result)
    /\ fetches = 0

\* A return date was supplied: the argument is there and is not empty.
ReturnGiven == args.returnDate # None /\ args.returnDate[1] # <<>>

\* The return date names a later day than the departure date (a day past
\* a month's end counted on into the next month, as the comparison of the
\* two Date objects does).
ReturnLater == CalendarDay(args.returnDate[1]) > CalendarDay(args.departureDate)

\* C13: the outgoing request has type=2 and no return_date exactly when no
\* return date was supplied, and has type=1 with both outbound_date and
\* return_date exactly when a return date later than the departure date
\* was supplied; the tripType reported agrees with the type sent.
C13_TripTypeFollowsReturnDate ==
    query # None =>
        /\ (query[1].type = Some(<<"2">>) /\ query[1].return_date = None)
              <=> ~ReturnGiven
        /\ (/\ query[1].type = Some(<<"1">>)
            /\ query[1].outbound_date = args.departureDate
            /\ query[1].return_date # None
            /\ query[1].return_date = args.returnDate)
              <=> (ReturnGiven /\ ReturnLater)
        /\ result.kind = "success" =>
              /\ result.payload.searchParameters.tripType = "round-trip"
                    <=> query[1].type = Some(<<"1">>)
              /\ result.payload.searchParameters.tripType = "one-way"
                    <=> query[1].type = Some(<<"2">>)

\* A round trip was searched and reported as one.
C13_Witness ==
    /\ query # None
    /\ ReturnGiven
    /\ query[1].type = Some(<<"1">>)
    /\ query[1].return_date = args.returnDate
    /\ result.kind = "success"
    /\ result.payload.searchParameters.tripType = "round-trip"

\* C14: the passenger count reported in searchParameters is always a
\* positive integer: 1 when passengers is omitted or zero, with no adults
\* parameter sent, and otherwise the adults parameter sent is the count
\* reported.
C14_PassengersReportedArePositive ==
    (query # None /\ result.kind = "success") =>
        LET reported == result.payload.searchParameters.passengers
        IN  /\ reported \in Nat \ {0}
            /\ IF args.passengers = None \/ args.passengers = Some(0)
               THEN reported = 1 /\ query[1].adults = None
               ELSE query[1].adults = Some(ToDigits(reported))

\* The request of this call ended in a status that is not 2xx or in a
\* network failure, and the call is over.
RequestFailedAndDone ==
    pc = "done" /\ fetches > 0 /\ upstream.kind \in {"http", "network"}

\* C15: one tool call issues at most one HTTP request; when that request
\* ends with a non-2xx status or a network failure the call ends in an
\* error result, with no second request and with no fallback
\* reconstruction (the service throws, it returns nothing).
C15_OneRequestAndFailureIsFinal ==
    /\ fetches <= 1
    /\ RequestFailedAndDone =>
          /\ result.kind = "error"
          /\ fetches = 1
          /\ outcome.kind = "throw"
          /\ outcome.value = NoValue

\* A call whose one request was answered with status 500 ended in an
\* error result that carries the service's message.
C15_Witness ==
    /\ RequestFailedAndDone
    /\ upstream.kind = "http"
    /\ upstream.status = 500
    /\ fetches = 1
    /\ result.kind = "error"
    /\ result.details = Some(outcome.message)

\* An entry of a raw list is object-valued: an object or an array, not
\* null, a number or a string.
ObjectValued(e) == e.t \in {"object", "array"}

\* The first n object-valued entries of a list, in the list's order.
RECURSIVE FirstObjects(_, _)
FirstObjects(items, n) ==
    IF items = <<>> \/ n = 0 THEN <<>>
    ELSE IF ObjectValued(Head(items))
         THEN <<Head(items)>> \o FirstObjects(Tail(items), n - 1)
         ELSE FirstObjects(Tail(items), n)

\* What C16 says the fallback returns for a raw field.
ExpectedFromFallback(raw) ==
    IF raw.t = "array" THEN FirstObjects(raw.items, 5) ELSE <<>>

StrictPassed ==
    /\ upstream.kind = "json"
    /\ SchemaAccepts(upstream.body)
    /\ outcome.kind = "return"

\* C17: applying the pruning filter of the strict pass to a list it has
\* already pruned gives the same list, the same options in the same order.
C17_PruningIsIdempotent ==
    StrictPassed =>
        \A list \in Lists :
            outcome.value[list] # None =>
                Prune(ListOf(Returned(list))) = Some(Returned(list))

\* The strict pass dropped an option of a list and kept another.
C17_Witness ==
    /\ StrictPassed
    /\ upstream.body.best_flights.t = "array"
    /\ Returned("best_flights") # <<>>
    /\ Len(Returned("best_flights")) < Len(upstream.body.best_flights.items)

\* A segment or an option has a departure airport, an arrival airport or
\* an airline that is not the empty string.
Identifies(f) ==
    \/ HasValue(f["departure_airport"])
    \/ HasValue(f["arrival_airport"])
    \/ Present(f["airline"])

\* The rule of C18 for one option.
KeptByRule(e) ==
    IF e.flights.t = "array" /\ Len(e.flights.segs) > 0
    THEN Identifies(e.flights.segs[1].f)
    ELSE Identifies(e.f)

\* The options of a list that the rule keeps, in the list's order.
RECURSIVE Survivors(_)
Survivors(items) ==
    IF items = <<>> THEN <<>>
    ELSE (IF KeptByRule(Head(items)) THEN <<Head(items)>> ELSE <<>>)
             \o Survivors(Tail(items))

\* C18: in the strict pass an option is kept exactly when, if it has a
\* non-empty flights list, the first segment has a departure_airport, an
\* arrival_airport or a non-empty airline, and otherwise when the option's
\* own departure_airport, arrival_airport or airline is present; the rule
\* is applied to best_flights and other_flights separately, the survivors
\* keep their order, and an absent list stays absent.
C18_StrictPassKeepsByFirstSegment ==
    StrictPassed =>
        \A list \in Lists :
            IF upstream.body[list].t = "absent"
            THEN outcome.value[list] = None
            ELSE outcome.value[list]
                     = Some(Survivors(upstream.body[list].items))

\* An option whose first segment has none of the three was dropped
\* although it has an airline of its own, and the absent other_flights
\* stayed absent.
C18_Witness ==
    /\ StrictPassed
    /\ upstream.body.best_flights.t = "array"
    /\ Len(upstream.body.best_flights.items) = 1
    /\ upstream.body.best_flights.items[1].flights.t = "array"
    /\ Len(upstream.body.best_flights.items[1].flights.segs) > 0
    /\ ~Identifies(upstream.body.best_flights.items[1].flights.segs[1].f)
    /\ Present(upstream.body.best_flights.items[1].f["airline"])
    /\ outcome.value.best_flights = Some(<<>>)
    /\ upstream.body.other_flights.t = "absent"
    /\ outcome.value.other_flights = None

\* The string is empty or holds only spaces.
Blank(s) == \A i \in DOMAIN s : s[i] = " "

IsAirportError(r) ==
    /\ r.kind = "error"
    /\ r.error.literal = "Could not find airport for \"{}\". Please provide a valid city name or 3-letter airport code."

\* C19: for an origin or destination that is empty or only whitespace,
\* findAirportCode returns null, so the tool returns the
\* could-not-find-airport error and issues no search.
C19_BlankAirportIsRefused ==
    (pc \in {"fetching", "done"} /\ (Blank(args.origin) \/ Blank(args.destination)))
        => /\ Blank(args.origin) => findAirportCode(args.origin) = null
           /\ Blank(args.destination) => findAirportCode(args.destination) = null
           /\ pc = "done"
           /\ fetches = 0
           /\ IsAirportError(result)

\* The raw body holds no structure to reconstruct from: it is no object,
\* or neither best_flights nor other_flights is a list.
NothingToReconstruct(b) ==
    \/ b.t # "object"
    \/ b.best_flights.t # "array" /\ b.other_flights.t # "array"

\* C20: when strict validation fails and the raw 2xx body holds no
\* reconstructible structure, searchFlights surfaces the validation
\* failure as an error and the tool returns an error result, never a
\* success payload with empty lists.
C20_NothingToReconstructIsAnError ==
    (/\ pc = "done"
     /\ upstream.kind = "json"
     /\ ~SchemaAccepts(upstream.body)
     /\ NothingToReconstruct(upstream.body))
        => (outcome.kind = "throw" /\ result.kind = "error")

\* C21: every 2xx response that passes strict validation produces a
\* success payload, and every success payload has bestFlights as a list of
\* at most 3 options, otherFlights as a list of at most 5 options,
\* totalResults equal to the number of best plus other options the service
\* retained, before the truncation, and searchUrl as a defined string.
C21_StrictValidGivesBoundedSuccess ==
    pc = "done" =>
        /\ (upstream.kind = "json" /\ SchemaAccepts(upstream.body))
              => result.kind = "success"
        /\ result.kind = "success" =>
              /\ result.payload.bestFlights # None
              /\ Len(result.payload.bestFlights[1]) <= 3
              /\ result.payload.otherFlights # None
              /\ Len(result.payload.otherFlights[1]) <= 5
              /\ result.payload.totalResults
                    = Len(Returned("best_flights")) + Len(Returned("other_flights"))
              /\ result.payload.searchUrl.t = "string"

====
